---- MODULE Spec2Model ----
(***************************************************************************)
(* The task lifecycle state machine and scheduler of the agent system:     *)
(* agent_system/agent_runner.py over agent_system/utils/persistence.py.    *)
(*                                                                         *)
(* The SQLite store is the variable db (tables tasks and agent_states, and *)
(* the rowid order of tasks).  Every call into persistence.py opens its    *)
(* own connection and commits, so one store call is one atomic step; a     *)
(* coordinator (an OS process running agent_runner.py) is a process of the *)
(* model whose position and in-memory objects are in proc.                 *)
(*                                                                         *)
(* Reading of the sources: agent_runner.py and persistence.py build Task   *)
(* objects with the fields of the tasks table (task_id, status, priority,  *)
(* assigned_agent_id, dependencies, updated_at, artifacts, ...) and use    *)
(* the statuses PENDING, IN_PROGRESS, COMPLETED, FAILED and BLOCKED; the   *)
(* model follows these two files (agents/models.py declares a Task with    *)
(* other field names and a TaskStatus without PENDING, FAILED and BLOCKED, *)
(* with which no store call of these files could build a Task at all).     *)
(* Python attributes set on a Task object that are no column of the table  *)
(* (retry_count) live in the in-memory object only.                        *)
(***************************************************************************)
EXTENDS Integers, Sequences, FiniteSets, TLC

VARIABLES db, now, proc, retry_log, runs, pool, cmd

vars == <<db, now, proc, retry_log, runs, pool, cmd>>

----------------------------------------------------------------------------
(* Bounds of the model *)

\* the clock (hours) stops advancing here
MaxTime == 3
\* longest file_changes list a worker response carries
MaxChanges == 1
\* the count of "Retrying task" log records saturates here
MaxLogged == 4
\* the runs of one coordinator in SpecRace
MaxRuns == 1
\* longest list of agent ids given to run_agents_in_parallel
MaxAgents == 3
\* largest max_parallel given to run_agents_in_parallel
MaxParallel == 2

(* Program constants *)

\* check_stalled_tasks: timeout = timedelta(hours=2)
StallHours == 2
\* run_all_agents: if task.retry_count <= 3
RetryCap == 3

----------------------------------------------------------------------------
(* Identities *)

Agents == {"A1", "A2"}
\* iteration order of AGENT_MAP.items()
AgentOrder == <<"A1", "A2">>
TaskIds == {"T1", "T2"}
\* an id that names no row of the tasks table
MissingId == "T9"
NoTask == "none"
NoAgent == "none"
Procs == {"P1", "P2"}
PrUrls == {"pr1", "pr2"}

PENDING == "PENDING"
IN_PROGRESS == "IN_PROGRESS"
COMPLETED == "COMPLETED"
FAILED == "FAILED"
BLOCKED == "BLOCKED"
TaskStatus == {PENDING, IN_PROGRESS, COMPLETED, FAILED, BLOCKED}

\* the columns of the tasks table that the model keeps
Columns == {"task_id", "status", "priority", "assigned_agent_id",
            "dependencies", "updated_at", "artifacts"}

NoState == [agent_id |-> NoAgent, status |-> "none", current_task_id |-> NoTask]
NoTaskObj == [task_id |-> NoTask]
NoResult == [status |-> "none"]
NoResponse == [marker |-> "unset"]
\* no dispatcher of run_parallel_agents.py is running
NoPool == [pc |-> "none"]
\* no agent_runner.py command has been started
NoCmd == [pc |-> "none"]

----------------------------------------------------------------------------
(* persistence.py *)

\* the row INSERT OR REPLACE writes: the table's columns of the object, and
\* nothing else the object carries
Row(task) == [c \in Columns |-> task[c]]

RemoveId(order, id) == SelectSeq(order, LAMBDA x : x # id)

\* INSERT OR REPLACE deletes the row with this key and inserts a new one, which
\* gets a fresh rowid: the row moves to the end of the table
save_task(d, task) ==
    [d EXCEPT !.tasks = [@ EXCEPT ![task.task_id] = Row(task)],
              !.rowids = Append(RemoveId(@, task.task_id), task.task_id)]

get_task(d, task_id) ==
    IF task_id \in DOMAIN d.tasks THEN d.tasks[task_id] ELSE NoTaskObj

\* SELECT ... FROM tasks: the rows in rowid order
get_all_tasks(d) == [i \in 1..Len(d.rowids) |-> d.tasks[d.rowids[i]]]

\* INSERT OR REPLACE: the row of the agent is written, or added when the agent
\* had none
save_agent_state(d, state) ==
    [d EXCEPT !.agent_states =
        [a \in DOMAIN @ \cup {state.agent_id} |->
            IF a = state.agent_id THEN state ELSE @[a]]]

get_agent_state(d, agent_id) ==
    IF agent_id \in DOMAIN d.agent_states THEN d.agent_states[agent_id] ELSE NoState

\* mutant: the status of an existing dependency is not looked at
dependencies_met_any_status(all_tasks, task) ==
    \A dep_id \in task.dependencies :
        Len(SelectSeq(all_tasks, LAMBDA t : t.task_id = dep_id)) > 0

\* mutant: a dependency with no row counts as met
dependencies_met_missing_ok(all_tasks, task) ==
    \A dep_id \in task.dependencies :
        LET hits == SelectSeq(all_tasks, LAMBDA t : t.task_id = dep_id)
        IN  Len(hits) = 0 \/ hits[1].status = COMPLETED

\* the inner loop over task.dependencies: a dependency with no row, or whose
\* row is not COMPLETED, makes the task unavailable
dependencies_met(all_tasks, task) ==
    \A dep_id \in task.dependencies :
        LET hits == SelectSeq(all_tasks, LAMBDA t : t.task_id = dep_id)
        IN  Len(hits) > 0 /\ hits[1].status = COMPLETED

\* sorted(key) is stable: insertion sort of a sequence by priority
RECURSIVE InsertByPriority(_, _)
InsertByPriority(sorted, t) ==
    IF sorted = << >> THEN <<t>>
    ELSE IF Head(sorted).priority <= t.priority
         THEN <<Head(sorted)>> \o InsertByPriority(Tail(sorted), t)
         ELSE <<t>> \o sorted

RECURSIVE SortByPriority(_)
SortByPriority(s) ==
    IF s = << >> THEN << >>
    ELSE InsertByPriority(SortByPriority(SubSeq(s, 1, Len(s) - 1)), s[Len(s)])

\* mutant: the tasks of the agent in any status, not only the PENDING ones
get_available_tasks_any_status(d, agent_id) ==
    LET all_tasks == get_all_tasks(d)
        agent_tasks == SelectSeq(all_tasks,
            LAMBDA t : t.assigned_agent_id = agent_id)
        available_tasks == SelectSeq(agent_tasks,
            LAMBDA t : dependencies_met(all_tasks, t))
    IN  SortByPriority(available_tasks)

get_available_tasks(d, agent_id) ==
    LET all_tasks == get_all_tasks(d)
        agent_tasks == SelectSeq(all_tasks,
            LAMBDA t : t.assigned_agent_id = agent_id /\ t.status = PENDING)
        available_tasks == SelectSeq(agent_tasks,
            LAMBDA t : dependencies_met(all_tasks, t))
    IN  SortByPriority(available_tasks)

----------------------------------------------------------------------------
(* agent_runner.py: the worker's response and its interpretation *)

\* What yaml.safe_load makes of the response text:
\*   "empty"      nothing, or a falsy document (not parsed)
\*   "scalar"     free text: a plain YAML scalar, a str (or a list), on which
\*                parsed.get raises AttributeError
\*   "yaml_error" text that is no YAML: safe_load raises
\*   "mapping"    a YAML mapping
Payloads == {"empty", "scalar", "yaml_error", "mapping"}

\* "TASK COMPLETED" in response / "BLOCKED" or "BLOCKER" in response / neither
Markers == {"completed", "blocked", "none"}

\* One entry of file_changes:
\*   "ok"          path and content, path allowed, directory created
\*   "no_path"     path missing or empty
\*   "no_content"  content missing or empty
\*   "not_allowed" is_path_allowed is false
\*   "mkdir_error" mkdir raises PermissionError or OSError
ChangeKinds == {"ok", "no_path", "no_content", "not_allowed", "mkdir_error"}

\* file_changes of a mapping: missing or falsy, truthy but no list, or a list
ChangeLists == UNION {[1..n -> ChangeKinds] : n \in 0..MaxChanges}

\* commit_agent_changes returns a PR url or raises
PublishOutcomes == PrUrls \cup {"raises"}

Responses ==
    [marker : Markers, payload : Payloads \ {"mapping"}, file_changes : {"missing"},
     entries : {<< >>}, reasoning : {FALSE}, publish : {"raises"}]
    \cup
    [marker : Markers, payload : {"mapping"}, file_changes : {"missing", "not_list"},
     entries : {<< >>}, reasoning : BOOLEAN, publish : {"raises"}]
    \cup
    [marker : Markers, payload : {"mapping"}, file_changes : {"list"},
     entries : ChangeLists, reasoning : BOOLEAN, publish : PublishOutcomes]

\* lines 310-315
marker_status(response) ==
    CASE response.marker = "completed" -> "completed"
      [] response.marker = "blocked" -> "blocked"
      [] OTHER -> "in_progress"

\* the dict file_changes built by the first pass (lines 354-380): the entries
\* that have a path and a content, an allowed path and a directory
usable_changes(response) ==
    SelectSeq(response.entries, LAMBDA c : c = "ok")

\* the result dict: its "status", whether it has the key "artifacts" and the
\* list under it, its "error", and whether save_agent_state(state) was called
\* to store the reasoning in the agent's memory
Result(status, artifacts, error, memory_saved) ==
    [status |-> status,
     has_artifacts |-> artifacts # << >>,
     artifacts |-> artifacts,
     error |-> error,
     memory_saved |-> memory_saved]

process_agent_response(response) ==
    LET status == marker_status(response) IN
    CASE response.payload = "yaml_error" ->
            \* except Exception: the status of the markers
            Result(status, << >>, "exception", FALSE)
      [] response.payload = "empty" ->
            Result("failed", << >>, "Failed to parse agent response format", FALSE)
      [] response.payload = "scalar" ->
            \* parsed.get raises AttributeError, caught by except Exception
            Result(status, << >>, "exception", FALSE)
      [] OTHER ->
            IF response.file_changes # "list" \/ response.entries = << >>
            THEN Result("failed", << >>, "No file changes provided", FALSE)
            ELSE IF usable_changes(response) # << >> /\ response.publish # "raises"
                 THEN Result(status, <<response.publish>>, "none", FALSE)
                 ELSE \* no usable change, or the publisher raised and the
                      \* files were written locally: lines 415-426
                      Result(status, << >>, "none", response.reasoning)

\* the API call raised instead of returning a response
ApiError == [marker |-> "api_error"]

\* execute_task lines 268-289: the response is processed, or the error of the
\* API call is caught and the result is failed
execute_task(response) ==
    IF response = ApiError THEN Result("failed", << >>, "api", FALSE)
    ELSE process_agent_response(response)

----------------------------------------------------------------------------
(* In-memory objects of a coordinator *)

\* getattr(task, 'retry_count', 0): a Task read from the store has no such
\* attribute, the tasks table has no such column
retry_count_of(task) ==
    IF "retry_count" \in DOMAIN task THEN task.retry_count ELSE 0

\* task.retry_count = n on the in-memory object
with_retry_count(task, n) ==
    [c \in DOMAIN task \cup {"retry_count"} |->
        IF c = "retry_count" THEN n ELSE task[c]]

IdleProc ==
    [pc |-> "idle", entry |-> "none", agent_id |-> NoAgent, task_id |-> NoTask,
     state |-> NoState, task |-> NoTaskObj, result |-> NoResult,
     response |-> NoResponse, claimed |-> FALSE, idx |-> 0,
     in_progress_tasks |-> << >>]

\* mutant: a run that ended with a FAILED task ends the loop of run_all_agents
Return_stops_on_failure(pr) ==
    IF pr.entry = "run_all_agents" /\ pr.idx < Len(AgentOrder)
       /\ ~(pr.task # NoTaskObj /\ pr.task.status = FAILED)
    THEN [IdleProc EXCEPT !.pc = "pass_agent", !.entry = "run_all_agents",
                          !.idx = pr.idx + 1]
    ELSE IdleProc

\* run_agent returns: to the loop of run_all_agents, which goes on with the
\* next agent and ends after the last, or to the command line
Return(pr) ==
    IF pr.entry = "run_all_agents" /\ pr.idx < Len(AgentOrder)
    THEN [IdleProc EXCEPT !.pc = "pass_agent", !.entry = "run_all_agents",
                          !.idx = pr.idx + 1]
    ELSE IdleProc

Min(a, b) == IF a <= b THEN a ELSE b

----------------------------------------------------------------------------
(* The clock: datetime.now(), in hours.  An hour passes while a worker call *)
(* is in flight or while no coordinator runs; the store calls and the code  *)
(* between them take no hour                                                *)

Tick ==
    /\ now < MaxTime
    /\ \/ \E p \in Procs : proc[p].pc = "ra_execute"
       \/ \A p \in Procs : proc[p].pc = "idle"
    /\ now' = now + 1
    /\ UNCHANGED <<db, proc, retry_log, runs, pool, cmd>>

----------------------------------------------------------------------------
(* run_agent(agent_id, task_id), agent_runner.py lines 89-186 *)

\* agent_runner.py --agent A [--task T]: a coordinator starts run_agent
Launch(p, agent_id, task_id) ==
    /\ proc[p].pc = "idle"
    /\ proc' = [proc EXCEPT ![p] = [IdleProc EXCEPT !.pc = "ra_begin",
                    !.entry = "run_agent", !.agent_id = agent_id,
                    !.task_id = task_id]]

StartRunAgent(p, agent_id, task_id) ==
    /\ Launch(p, agent_id, task_id)
    /\ UNCHANGED <<db, now, retry_log, runs, pool, cmd>>

\* the same, for a coordinator that is started at most MaxRuns times
StartRunAgentOnce(p, agent_id, task_id) ==
    /\ runs[p] < MaxRuns
    /\ Launch(p, agent_id, task_id)
    /\ runs' = [runs EXCEPT ![p] = @ + 1]
    /\ UNCHANGED <<db, now, retry_log, pool, cmd>>

\* lines 97-106: the agent of the roster and its stored state
RaGetState(p) ==
    /\ proc[p].pc = "ra_begin"
    /\ LET state == get_agent_state(db, proc[p].agent_id) IN
       proc' = [proc EXCEPT ![p] =
                    IF proc[p].agent_id \notin Agents \/ state = NoState
                    THEN Return(proc[p])
                    ELSE [proc[p] EXCEPT !.pc = "ra_resolve", !.state = state]]
    /\ UNCHANGED <<db, now, retry_log, runs, pool, cmd>>

\* mutant: an id that names no task falls back to the head of
\* get_available_tasks
resolve_task_falls_back(d, pr) ==
    LET available_tasks == get_available_tasks(d, pr.agent_id)
        named == IF pr.task_id # NoTask THEN get_task(d, pr.task_id)
                 ELSE IF pr.state.current_task_id # NoTask
                      THEN get_task(d, pr.state.current_task_id)
                      ELSE NoTaskObj
    IN  IF named # NoTaskObj THEN named
        ELSE IF available_tasks = << >> THEN NoTaskObj ELSE available_tasks[1]

\* lines 108-125: the explicit task, else the current task, else the head of
\* get_available_tasks
resolve_task(d, pr) ==
    IF pr.task_id # NoTask THEN get_task(d, pr.task_id)
    ELSE IF pr.state.current_task_id # NoTask
         THEN get_task(d, pr.state.current_task_id)
         ELSE LET available_tasks == get_available_tasks(d, pr.agent_id)
              IN  IF available_tasks = << >> THEN NoTaskObj
                  ELSE available_tasks[1]

\* mutant: resolving the task already writes the claim
RaResolveClaims(p) ==
    /\ proc[p].pc = "ra_resolve"
    /\ LET task == resolve_task(db, proc[p]) IN
       /\ proc' = [proc EXCEPT ![p] =
                    IF task = NoTaskObj THEN Return(proc[p])
                    ELSE [proc[p] EXCEPT !.pc = "ra_save_state", !.task = task]]
       /\ db' = IF task = NoTaskObj THEN db
                ELSE save_task(db, [task EXCEPT !.status = IN_PROGRESS])
    /\ UNCHANGED <<now, retry_log, runs, pool, cmd>>

RaResolve(p) ==
    /\ proc[p].pc = "ra_resolve"
    /\ LET task == resolve_task(db, proc[p]) IN
       proc' = [proc EXCEPT ![p] =
                    IF task = NoTaskObj THEN Return(proc[p])
                    ELSE [proc[p] EXCEPT !.pc = "ra_save_state", !.task = task]]
    /\ UNCHANGED <<db, now, retry_log, runs, pool, cmd>>

\* lines 127-131
RaSaveState(p) ==
    /\ proc[p].pc = "ra_save_state"
    /\ LET state == [proc[p].state EXCEPT
                        !.current_task_id = proc[p].task.task_id,
                        !.status = "working"]
       IN  /\ db' = save_agent_state(db, state)
           /\ proc' = [proc EXCEPT ![p].state = state,
                           ![p].pc = IF proc[p].task.status = PENDING
                                     THEN "ra_claim" ELSE "ra_execute"]
    /\ UNCHANGED <<now, retry_log, runs, pool, cmd>>

\* lines 133-137: the in-memory task, read at ra_resolve, is PENDING: it is
\* written back as IN_PROGRESS
claim_task(task, time) ==
    [task EXCEPT !.status = IN_PROGRESS, !.updated_at = time]

RaClaim(p) ==
    /\ proc[p].pc = "ra_claim"
    /\ LET task == claim_task(proc[p].task, now) IN
       /\ db' = save_task(db, task)
       /\ proc' = [proc EXCEPT ![p].task = task, ![p].claimed = TRUE,
                               ![p].pc = "ra_execute"]
    /\ UNCHANGED <<now, retry_log, runs, pool, cmd>>

\* lines 147-169: the task's status and artifacts from the result
apply_result(task, result) ==
    CASE result.status = "completed" ->
            [task EXCEPT !.status = COMPLETED,
                         !.artifacts = IF result.has_artifacts
                                       THEN result.artifacts ELSE @]
      [] result.status = "failed" -> [task EXCEPT !.status = FAILED]
      [] result.status = "blocked" -> [task EXCEPT !.status = BLOCKED]
      [] OTHER -> task

AllResponses == Responses \cup {ApiError}

\* every result execute_task can return
ExecutionResults == {execute_task(r) : r \in AllResponses}

\* one response for each result execute_task can return
ResponseSamples ==
    {CHOOSE r \in AllResponses : execute_task(r) = res : res \in ExecutionResults}

\* lines 143-169: execute_task returns a result.  process_agent_response may
\* have stored the agent's memory with save_agent_state(state).  With observe,
\* the response is any of AllResponses and the coordinator's record keeps the
\* response text and the result dict (its "raw_response") until the task is
\* saved; without, the response is one for each possible result and the record
\* keeps only the task it led to
RaExecute(p, observe) ==
    /\ proc[p].pc = "ra_execute"
    /\ \E response \in IF observe THEN AllResponses ELSE ResponseSamples :
         LET result == execute_task(response) IN
         /\ db' = IF result.memory_saved
                  THEN save_agent_state(db, proc[p].state) ELSE db
         /\ proc' = [proc EXCEPT
                         ![p].result = IF observe THEN result ELSE NoResult,
                         ![p].response = IF observe THEN response ELSE NoResponse,
                         ![p].task = apply_result(proc[p].task, result),
                         ![p].pc = "ra_save_task"]
    /\ UNCHANGED <<now, retry_log, runs, pool, cmd>>

\* lines 173-179: an exception inside the try block
RaExecuteRaises(p) ==
    /\ proc[p].pc = "ra_execute"
    /\ proc' = [proc EXCEPT
                    ![p].task = [proc[p].task EXCEPT !.status = FAILED],
                    ![p].pc = "ra_save_task"]
    /\ UNCHANGED <<db, now, retry_log, runs, pool, cmd>>

\* lines 171-172 and 179-180: task.updated_at = datetime.now(); save_task(task)
RaSaveTask(p) ==
    /\ proc[p].pc = "ra_save_task"
    /\ LET task == [proc[p].task EXCEPT !.updated_at = now] IN
       /\ db' = save_task(db, task)
       /\ proc' = [proc EXCEPT ![p].task = task, ![p].result = NoResult,
                               ![p].response = NoResponse,
                               ![p].pc = "ra_finally"]
    /\ UNCHANGED <<now, retry_log, runs, pool, cmd>>

\* mutant: the finally block does not reset the agent's status
release_agent_keeps_status(state, task) ==
    [state EXCEPT !.current_task_id = IF task.status \in {COMPLETED, FAILED}
                                      THEN NoTask ELSE task.task_id]

\* lines 181-186
release_agent(state, task) ==
    [state EXCEPT !.status = "idle",
                  !.current_task_id = IF task.status \in {COMPLETED, FAILED}
                                      THEN NoTask ELSE task.task_id]

RaFinally(p) ==
    /\ proc[p].pc = "ra_finally"
    /\ db' = save_agent_state(db, release_agent(proc[p].state, proc[p].task))
    /\ proc' = [proc EXCEPT ![p] = Return(proc[p])]
    /\ UNCHANGED <<now, retry_log, runs, pool, cmd>>

----------------------------------------------------------------------------
(* run_all_agents and check_stalled_tasks, agent_runner.py lines 437-558 *)

\* lines 508-509
in_progress_rows(d) ==
    SelectSeq(get_all_tasks(d), LAMBDA t : t.status = IN_PROGRESS)

\* mutant: the sweep finds no task stalled
is_stalled_never(task, time) == FALSE

\* line 514, on a task of the snapshot
is_stalled(task, time) == time - task.updated_at > StallHours

\* lines 528-531: the in-memory task after the reset
reset_stalled(task, time) ==
    with_retry_count([task EXCEPT !.status = PENDING, !.updated_at = time],
                     retry_count_of(task) + 1)

\* lines 514-532 for one task of the snapshot
check_stalled_task(d, task, time) ==
    IF is_stalled(task, time)
    THEN LET state == get_agent_state(d, task.assigned_agent_id)
             d1 == IF state # NoState /\ state.current_task_id = task.task_id
                   THEN save_agent_state(d,
                            [state EXCEPT !.current_task_id = NoTask,
                                          !.status = "idle"])
                   ELSE d
         IN  save_task(d1, reset_stalled(task, time))
    ELSE d

\* run_all_agents is entered; check_stalled_tasks reads the tasks
PassBegin(p) ==
    /\ proc[p].pc = "idle"
    /\ LET snapshot == in_progress_rows(db) IN
       proc' = [proc EXCEPT ![p] =
                    [IdleProc EXCEPT !.entry = "run_all_agents",
                        !.pc = IF snapshot = << >> THEN "pass_agent" ELSE "sweep",
                        !.idx = IF snapshot = << >> THEN 1 ELSE 0,
                        !.in_progress_tasks = snapshot]]
    /\ UNCHANGED <<db, now, retry_log, runs, pool, cmd>>

\* one iteration of the loop of check_stalled_tasks
SweepTask(p) ==
    /\ proc[p].pc = "sweep"
    /\ LET task == Head(proc[p].in_progress_tasks)
           rest == Tail(proc[p].in_progress_tasks)
       IN  /\ db' = check_stalled_task(db, task, now)
           /\ proc' = [proc EXCEPT ![p].in_progress_tasks = rest,
                           ![p].pc = IF rest = << >> THEN "pass_agent" ELSE "sweep",
                           ![p].idx = IF rest = << >> THEN 1 ELSE 0]
    /\ UNCHANGED <<now, retry_log, runs, pool, cmd>>

\* config.py line 29: the default of TASK_TIMEOUT_HOURS
DefaultTimeoutHours == 24

\* config.py line 29: int(os.getenv("TASK_TIMEOUT_HOURS", "24")), read from
\* the environment of the command when there is one
TASK_TIMEOUT_HOURS ==
    IF "timeout_hours" \in DOMAIN cmd THEN cmd.timeout_hours
    ELSE DefaultTimeoutHours

\* get_failed_tasks: the FAILED rows of the agent
get_failed_tasks(d, agent_id) ==
    {d.tasks[id] : id \in {i \in DOMAIN d.tasks :
        d.tasks[i].assigned_agent_id = agent_id /\ d.tasks[i].status = FAILED}}

\* ORDER BY priority DESC: the rows that can come first (the order of rows of
\* equal priority is not specified)
first_failed(d, agent_id) ==
    {t \in get_failed_tasks(d, agent_id) :
        \A u \in get_failed_tasks(d, agent_id) : u.priority <= t.priority}

\* lines 484-487: the in-memory task of the retry
retry_task(task, time) ==
    with_retry_count([task EXCEPT !.status = PENDING, !.updated_at = time],
                     retry_count_of(task) + 1)

\* line 490
should_retry(task) == task.retry_count <= RetryCap

\* mutant: the timeout of the current task is never seen
task_timed_out_never(task, time) == FALSE

\* lines 458-459: datetime.now() - task.updated_at > timeout
task_timed_out(task, time) == time - task.updated_at > TASK_TIMEOUT_HOURS

\* lines 444-502 for one agent, up to the call of run_agent: the store after
\* it, the task run_agent is called with (NoTask: the agent is skipped) and
\* the task the retry path has reset (NoTask: none).  failed_task is the
\* first row of get_failed_tasks, when there is one
pass_agent(d, agent_id, time, failed_task) ==
    LET stored == get_agent_state(d, agent_id)
        state == IF stored = NoState
                 THEN [agent_id |-> agent_id, status |-> "idle",
                       current_task_id |-> NoTask]
                 ELSE stored
        d1 == IF stored = NoState THEN save_agent_state(d, state) ELSE d
        current == IF state.current_task_id # NoTask
                   THEN get_task(d1, state.current_task_id) ELSE NoTaskObj
        active == current # NoTaskObj /\ current.status = IN_PROGRESS
        timed_out == active /\ task_timed_out(current, time)
        d2 == IF timed_out
              THEN save_agent_state(
                       save_task(d1, [current EXCEPT !.status = FAILED,
                                                     !.updated_at = time]),
                       [state EXCEPT !.current_task_id = NoTask,
                                     !.status = "idle"])
              ELSE d1
        available_tasks == get_available_tasks(d2, agent_id)
        retried == retry_task(failed_task, time)
    IN  IF state.status = "working"
        THEN [db |-> d1, run |-> NoTask, retried |-> NoTask]
        ELSE IF active /\ ~timed_out
        THEN [db |-> d1, run |-> current.task_id, retried |-> NoTask]
        ELSE IF available_tasks # << >>
        THEN [db |-> d2, run |-> available_tasks[1].task_id, retried |-> NoTask]
        ELSE IF failed_task = NoTaskObj
        THEN [db |-> d2, run |-> NoTask, retried |-> NoTask]
        ELSE IF should_retry(retried)
        THEN [db |-> save_task(d2, retried), run |-> retried.task_id,
              retried |-> retried.task_id]
        ELSE [db |-> d2, run |-> NoTask, retried |-> NoTask]

\* the first row get_failed_tasks can return, NoTaskObj when it returns none
FailedPicks(d, agent_id) ==
    IF first_failed(d, agent_id) = {} THEN {NoTaskObj}
    ELSE first_failed(d, agent_id)

\* the store get_failed_tasks reads at line 480: after the timeout of the
\* current task, lines 460-468, when there was one
store_after_timeout(d, agent_id, time) == pass_agent(d, agent_id, time, NoTaskObj).db

\* with log_retries the "Retrying task" log records (line 492) are counted
PassAgent(p, log_retries) ==
    /\ proc[p].pc = "pass_agent"
    /\ LET agent_id == AgentOrder[proc[p].idx] IN
       \E failed_task \in FailedPicks(store_after_timeout(db, agent_id, now), agent_id) :
         LET step == pass_agent(db, agent_id, now, failed_task) IN
         /\ db' = step.db
         /\ retry_log' = IF step.retried = NoTask \/ ~log_retries THEN retry_log
                         ELSE [retry_log EXCEPT ![step.retried] = Min(@ + 1, MaxLogged)]
         /\ proc' = [proc EXCEPT ![p] =
                        IF step.run = NoTask THEN Return(proc[p])
                        ELSE [proc[p] EXCEPT !.pc = "ra_begin",
                                  !.agent_id = agent_id, !.task_id = step.run]]
    /\ UNCHANGED <<now, runs, pool, cmd>>

----------------------------------------------------------------------------
(* Initial stores *)

NewTask(id, agent_id, priority, deps) ==
    [task_id |-> id, status |-> PENDING, priority |-> priority,
     assigned_agent_id |-> agent_id, dependencies |-> deps,
     updated_at |-> 0, artifacts |-> << >>]

IdleState(agent_id) ==
    [agent_id |-> agent_id, status |-> "idle", current_task_id |-> NoTask]

\* T1 depends on nothing, on T2 or on a task that does not exist; T2 on
\* nothing, on T1 or on itself: chains, a cycle of one or two tasks, a missing
\* dependency
DepChoices(id) ==
    IF id = "T1" THEN {{}, {"T2"}, {MissingId}} ELSE {{}, {"T1"}, {"T2"}}

\* the stores after initialize_agents and task creation: every task PENDING
\* with no artifacts, every agent idle
InitialStores ==
    {[tasks |-> [id \in TaskIds |->
                    IF id = "T1" THEN NewTask("T1", "A1", p1, d1)
                    ELSE NewTask("T2", a2, 1, d2)],
      rowids |-> <<"T1", "T2">>,
      agent_states |-> [a \in Agents |-> IdleState(a)]] :
        p1 \in {1, 2}, a2 \in Agents,
        d1 \in DepChoices("T1"), d2 \in DepChoices("T2")}

InitCommon ==
    /\ now = 0
    /\ proc = [p \in Procs |-> IdleProc]
    /\ retry_log = [id \in TaskIds |-> 0]
    /\ runs = [p \in Procs |-> 0]
    /\ pool = NoPool
    /\ cmd = NoCmd

----------------------------------------------------------------------------
(* Spec: one coordinator; its runs choose their task through the scheduler  *)
(* (scheduling passes, and run_agent without a task id)                     *)

Init ==
    /\ db \in InitialStores
    /\ InitCommon

RunAgentSteps(p, observe) ==
    \/ RaGetState(p)
    \/ RaResolve(p)
    \/ RaSaveState(p)
    \/ RaClaim(p)
    \/ RaExecute(p, observe)
    \/ RaExecuteRaises(p)
    \/ RaSaveTask(p)
    \/ RaFinally(p)

Next ==
    \/ Tick
    \/ \E a \in Agents : StartRunAgent("P1", a, NoTask)
    \/ PassBegin("P1")
    \/ SweepTask("P1")
    \/ PassAgent("P1", FALSE)
    \/ RunAgentSteps("P1", FALSE)

Spec == Init /\ [][Next]_vars

----------------------------------------------------------------------------
(* Dependencies *)

\* the dependencies of a task are all tasks that exist and are COMPLETED
DepsCompleted(d, id) ==
    \A dep \in d.tasks[id].dependencies :
        dep \in DOMAIN d.tasks /\ d.tasks[dep].status = COMPLETED

\* the ids get_available_tasks returns for an agent
AvailableIds(d, a) ==
    {get_available_tasks(d, a)[i].task_id : i \in 1..Len(get_available_tasks(d, a))}

\* C6: no task goes from PENDING to IN_PROGRESS while one of its dependencies
\* is not COMPLETED, and the task the scheduler returns first for an agent has
\* all its dependencies COMPLETED (T2, which depends on T1, is not returned
\* before T1 is COMPLETED)
C6_DependenciesBeforeClaim ==
    [][/\ \A id \in TaskIds :
            (db.tasks[id].status = PENDING /\ db'.tasks[id].status = IN_PROGRESS)
                => DepsCompleted(db, id)
       /\ \A a \in Agents :
            get_available_tasks(db', a) # << >>
                => DepsCompleted(db', get_available_tasks(db', a)[1].task_id)]_vars

\* T2, which depends on T1 and has the same agent and priority, is claimed:
\* it is IN_PROGRESS
C6_Witness ==
    /\ db.tasks["T2"].dependencies = {"T1"}
    /\ db.tasks["T2"].assigned_agent_id = db.tasks["T1"].assigned_agent_id
    /\ db.tasks["T2"].priority = db.tasks["T1"].priority
    /\ db.tasks["T2"].status = IN_PROGRESS

\* the tasks of S and the existing tasks they depend on
WithDeps(d, S) ==
    S \cup UNION {d.tasks[x].dependencies \cap DOMAIN d.tasks : x \in S}

RECURSIVE ReachFrom(_, _, _)
ReachFrom(d, S, n) == IF n = 0 THEN S ELSE ReachFrom(d, WithDeps(d, S), n - 1)

\* the task depends, directly or through other tasks, on itself
OnCycle(d, id) ==
    id \in ReachFrom(d, d.tasks[id].dependencies \cap DOMAIN d.tasks,
                     Cardinality(DOMAIN d.tasks))

HasMissingDep(d, id) ==
    \E dep \in d.tasks[id].dependencies : dep \notin DOMAIN d.tasks

\* C8: a task with a dependency that names no task, or on a dependency cycle,
\* is never returned by the scheduler and never claimed: it stays PENDING and
\* no coordinator holds it
C8_IneligibleNeverClaimed ==
    \A id \in TaskIds :
        (HasMissingDep(db, id) \/ OnCycle(db, id))
            => /\ db.tasks[id].status = PENDING
               /\ \A a \in Agents : id \notin AvailableIds(db, a)
               /\ \A p \in Procs : proc[p].task.task_id # id

\* a task with a missing dependency or on a cycle is still PENDING after the
\* scheduler has chosen, for the same agent, the other task, now COMPLETED
C8_Witness ==
    \E id \in TaskIds, other \in TaskIds :
        /\ HasMissingDep(db, id) \/ OnCycle(db, id)
        /\ db.tasks[id].status = PENDING
        /\ other # id
        /\ db.tasks[other].assigned_agent_id = db.tasks[id].assigned_agent_id
        /\ db.tasks[other].status = COMPLETED

----------------------------------------------------------------------------
(* Completion and artifacts *)

\* C2: a COMPLETED task has at least one artifact
C2_CompletedHasArtifacts ==
    \A id \in TaskIds :
        db.tasks[id].status = COMPLETED => db.tasks[id].artifacts # << >>

----------------------------------------------------------------------------
(* The stall sweep *)

\* coordinator p takes the step of check_stalled_tasks for a stalled task
SweepsStalled(p) ==
    /\ proc[p].pc = "sweep"
    /\ proc'[p] # proc[p]
    /\ is_stalled(Head(proc[p].in_progress_tasks), now)

\* C9: after the sweep, a task that was IN_PROGRESS for more than the stall
\* threshold is PENDING, its stored retry_count is one higher than before, and
\* its agent, if that task was its current task, is idle with no current task
C9_StallSweepResets ==
    [][\A p \in Procs : SweepsStalled(p) =>
         LET task == Head(proc[p].in_progress_tasks)
             id == task.task_id
             a == task.assigned_agent_id
         IN  /\ db'.tasks[id].status = PENDING
             /\ retry_count_of(get_task(db', id)) = retry_count_of(get_task(db, id)) + 1
             /\ db.agent_states[a].current_task_id = id
                  => /\ db'.agent_states[a].current_task_id = NoTask
                     /\ db'.agent_states[a].status = "idle"]_vars

----------------------------------------------------------------------------
(* SpecRetry: one coordinator running scheduling passes, the retries logged *)

NextRetry ==
    \/ PassBegin("P1")
    \/ SweepTask("P1")
    \/ PassAgent("P1", TRUE)
    \/ RunAgentSteps("P1", FALSE)

SpecRetry == Init /\ [][NextRetry]_vars

\* C3: the retry path resets a task from FAILED to PENDING at most 3 times
C3_RetryCapped ==
    \A id \in TaskIds : retry_log[id] <= RetryCap

----------------------------------------------------------------------------
(* SpecResponse: one coordinator running run_agent, the worker's response   *)
(* and the result observed                                                  *)

NextResponse ==
    \/ \E a \in Agents : StartRunAgent("P1", a, NoTask)
    \/ RunAgentSteps("P1", TRUE)

SpecResponse == Init /\ [][NextResponse]_vars

\* the response was returned by the worker and processed
Processed(p) == proc[p].pc = "ra_save_task" /\ proc[p].response \in Responses

\* a response with the completion marker and no concrete change: file_changes
\* missing, no list, empty, or with no entry that has a path, a content and
\* an allowed path
SuccessfulLookingNoChange(response) ==
    /\ response.marker = "completed"
    /\ response.payload = "mapping"
    /\ \/ response.file_changes # "list"
       \/ \A i \in 1..Len(response.entries) :
            response.entries[i] \in {"no_path", "no_content", "not_allowed"}

\* C4: a successful-looking response with no concrete change gives a failed
\* result and a FAILED task
C4_NoChangeIsFailed ==
    \A p \in Procs :
        (Processed(p) /\ SuccessfulLookingNoChange(proc[p].response))
            => /\ proc[p].result.status = "failed"
               /\ proc[p].task.status = FAILED

\* C5: free text with no structured payload gives a failed result with the
\* unparseable-response reason, a FAILED task and no artifacts
C5_FreeTextIsFailed ==
    \A p \in Procs :
        (Processed(p) /\ proc[p].response.payload # "mapping")
            => /\ proc[p].result.status = "failed"
               /\ proc[p].result.error = "Failed to parse agent response format"
               /\ proc[p].task.status = FAILED
               /\ proc[p].task.artifacts = << >>

----------------------------------------------------------------------------
(* SpecRace: two coordinators, each running run_agent for an agent          *)

NextRace ==
    \E p \in Procs :
        \/ \E a \in Agents : StartRunAgentOnce(p, a, NoTask)
        \/ RunAgentSteps(p, FALSE)

SpecRace == Init /\ [][NextRace]_vars

\* coordinator p has moved its task from PENDING to IN_PROGRESS and is
\* executing it
Executing(p) ==
    proc[p].claimed /\ proc[p].pc \in {"ra_execute", "ra_save_task", "ra_finally"}

\* C1: of two coordinators that resolve the same PENDING task, only one moves
\* it to IN_PROGRESS and executes it
C1_AtMostOneClaim ==
    \A p \in Procs, q \in Procs :
        (p # q /\ Executing(p) /\ Executing(q))
            => proc[p].task.task_id # proc[q].task.task_id

\* C10: for each agent at most one of the tasks it claimed is IN_PROGRESS (in
\* SpecRace a task is only ever claimed by the agent it is assigned to)
C10_OneTaskPerAgent ==
    \A a \in Agents :
        Cardinality({id \in TaskIds :
            /\ db.tasks[id].assigned_agent_id = a
            /\ db.tasks[id].status = IN_PROGRESS}) <= 1

----------------------------------------------------------------------------
(* SpecStore: run_agent on any store: tasks in any status                   *)

AnyStores ==
    {[d EXCEPT !.tasks = [id \in TaskIds |-> [d.tasks[id] EXCEPT !.status = st[id]]]] :
        d \in InitialStores, st \in [TaskIds -> TaskStatus]}

InitStore ==
    /\ db \in AnyStores
    /\ InitCommon

NextStore ==
    \/ \E a \in Agents : StartRunAgent("P1", a, NoTask)
    \/ RunAgentSteps("P1", FALSE)

SpecStore == InitStore /\ [][NextStore]_vars

\* the tasks assigned to the agent that are PENDING and whose every dependency
\* names an existing COMPLETED task
EligibleIds(d, a) ==
    {id \in DOMAIN d.tasks :
        /\ d.tasks[id].assigned_agent_id = a
        /\ d.tasks[id].status = PENDING
        /\ DepsCompleted(d, id)}

\* C7: get_available_tasks returns exactly the eligible tasks of the agent,
\* each once, as they are stored
C7_AvailableIsEligible ==
    \A a \in Agents :
        LET available_tasks == get_available_tasks(db, a) IN
        /\ AvailableIds(db, a) = EligibleIds(db, a)
        /\ Len(available_tasks) = Cardinality(EligibleIds(db, a))
        /\ \A i \in 1..Len(available_tasks) :
              available_tasks[i] = db.tasks[available_tasks[i].task_id]

\* an agent with two PENDING tasks, one returned and one held back by its
\* dependency, has resolved its next task
C7_Witness ==
    \E a \in Agents, id \in TaskIds, held \in TaskIds :
        /\ id \in AvailableIds(db, a)
        /\ held \notin AvailableIds(db, a)
        /\ db.tasks[held].assigned_agent_id = a
        /\ db.tasks[held].status = PENDING
        /\ proc["P1"].pc = "ra_save_state"
        /\ proc["P1"].agent_id = a
        /\ proc["P1"].task.task_id = id

----------------------------------------------------------------------------
(* Status transitions *)

Outcomes == {COMPLETED, FAILED, BLOCKED}

\* C11: every change of a task's stored status to COMPLETED, FAILED or BLOCKED
\* starts from IN_PROGRESS, and every change to IN_PROGRESS starts from PENDING
C11_OutcomeFromInProgress ==
    [][\A id \in TaskIds :
          db'.tasks[id].status # db.tasks[id].status
            => /\ db'.tasks[id].status \in Outcomes
                    => db.tasks[id].status = IN_PROGRESS
               /\ db'.tasks[id].status = IN_PROGRESS
                    => db.tasks[id].status = PENDING]_vars

----------------------------------------------------------------------------
(* SpecExplicit: one coordinator running run_agent for any agent id, with   *)
(* or without an explicit task id (agent_runner.py --agent A [--task T]),   *)
(* on stores where an agent of the roster may have no stored state yet and  *)
(* a stored current_task_id may name no task                                *)

\* an agent id that is not in the roster
UnknownAgent == "A9"

ExplicitStores ==
    {[d EXCEPT !.agent_states =
          [a \in stored |-> IF a = "A1"
                            THEN [IdleState(a) EXCEPT !.current_task_id = cur]
                            ELSE IdleState(a)]] :
        d \in {i \in InitialStores : i.tasks["T1"].priority = 1},
        stored \in {Agents, {"A1"}},
        cur \in {NoTask, MissingId}}

InitExplicit ==
    /\ db \in ExplicitStores
    /\ InitCommon

NextExplicit ==
    \/ \E a \in Agents \cup {UnknownAgent}, t \in TaskIds \cup {NoTask, MissingId} :
            StartRunAgent("P1", a, t)
    \/ RunAgentSteps("P1", FALSE)

SpecExplicit == InitExplicit /\ [][NextExplicit]_vars

\* C12: no step changes the status of a COMPLETED task
C12_CompletedIsTerminal ==
    [][\A id \in TaskIds :
          db.tasks[id].status = COMPLETED => db'.tasks[id].status = COMPLETED]_vars

\* the entries of a list
Range(seq) == {seq[i] : i \in 1..Len(seq)}

\* C13: the artifacts of a COMPLETED task never lose an entry
C13_CompletedKeepsArtifacts ==
    [][\A id \in TaskIds :
          db.tasks[id].status = COMPLETED
            => Range(db.tasks[id].artifacts) \subseteq Range(db'.tasks[id].artifacts)]_vars

----------------------------------------------------------------------------
(* Errors and outcomes of an execution, under SpecResponse *)

\* the worker call raised, the response processing raised (yaml.safe_load, or
\* parsed.get on a parsed value that is no mapping) or the publishing raised
Raised(response) ==
    \/ response = ApiError
    \/ /\ response \in Responses
       /\ \/ response.payload \in {"scalar", "yaml_error"}
          \/ /\ response.payload = "mapping"
             /\ response.file_changes = "list"
             /\ usable_changes(response) # << >>
             /\ response.publish = "raises"

\* C14: when the worker call, the response processing or the publishing
\* raised, the task run_agent is about to save is FAILED
C14_ErrorGivesFailed ==
    \A p \in Procs :
        (proc[p].pc = "ra_save_task" /\ Raised(proc[p].response))
            => proc[p].task.status = FAILED

\* C15: a run that claimed its task saves it COMPLETED, FAILED or BLOCKED:
\* COMPLETED for the completion marker with artifacts, BLOCKED for the blocked
\* marker, FAILED with a failed result for a response with neither marker
C15_ClaimedRunEndsInOutcome ==
    \A p \in Procs :
        (Processed(p) /\ proc[p].claimed)
            => /\ proc[p].task.status \in Outcomes
               /\ (proc[p].response.marker = "completed" /\ proc[p].result.has_artifacts)
                    => proc[p].task.status = COMPLETED
               /\ proc[p].response.marker = "blocked"
                    => proc[p].task.status = BLOCKED
               /\ proc[p].response.marker = "none"
                    => /\ proc[p].result.status = "failed"
                       /\ proc[p].task.status = FAILED

----------------------------------------------------------------------------
(* The agent's state after a run, under Spec *)

\* the coordinator is inside run_agent
InRunAgent(p) == proc[p].pc \in {"ra_begin", "ra_resolve", "ra_save_state",
                                 "ra_claim", "ra_execute", "ra_save_task",
                                 "ra_finally"}

\* C16: when no run_agent is running, every run_agent that set its agent to
\* "working" has returned and set it back: every stored agent status is "idle"
C16_FinishedRunLeavesIdle ==
    (\A p \in Procs : ~InRunAgent(p))
        => \A a \in DOMAIN db.agent_states : db.agent_states[a].status = "idle"

\* run_agent has returned from a run that claimed a task and ended BLOCKED, and
\* from one that ended FAILED
C16_Witness ==
    /\ \A p \in Procs : proc[p].pc = "idle"
    /\ \E id \in TaskIds : db.tasks[id].status = BLOCKED
    /\ \E id \in TaskIds : db.tasks[id].status = FAILED

----------------------------------------------------------------------------
(* Invalid invocations of run_agent, under SpecExplicit *)

\* run_agent was called with an agent id that is not in the roster or has no
\* stored state (seen at its first step), or with an explicit task id or a
\* stored current_task_id that names no task (seen when it resolves its task)
InvalidRun(p) ==
    \/ /\ proc[p].pc = "ra_begin"
       /\ \/ proc[p].agent_id \notin Agents
          \/ get_agent_state(db, proc[p].agent_id) = NoState
    \/ /\ proc[p].pc = "ra_resolve"
       /\ \/ /\ proc[p].task_id # NoTask
             /\ get_task(db, proc[p].task_id) = NoTaskObj
          \/ /\ proc[p].task_id = NoTask
             /\ proc[p].state.current_task_id # NoTask
             /\ get_task(db, proc[p].state.current_task_id) = NoTaskObj

\* C17: the step of run_agent that meets an invalid agent id, a missing agent
\* state, or a task id or current_task_id naming no task, returns and leaves
\* every task record and agent state as it was, and so has every step of the
\* run before it
C17_InvalidRunChangesNothing ==
    [][\A p \in Procs :
          /\ (InvalidRun(p) /\ proc'[p] # proc[p])
                => db' = db /\ proc'[p] = IdleProc
          /\ (proc[p].pc = "ra_begin" /\ proc'[p] # proc[p]) => db' = db]_vars

\* after earlier runs have completed a task, a run stands before resolving a
\* task id that names no task
C17_Witness ==
    /\ InvalidRun("P1")
    /\ proc["P1"].pc = "ra_resolve"
    /\ proc["P1"].task_id = MissingId
    /\ \E id \in TaskIds : db.tasks[id].status = COMPLETED

----------------------------------------------------------------------------
(* The order of the scheduler's answer, under Spec *)

\* the order in which initialize_tasks inserted the tasks
CreationOrder == <<"T1", "T2">>

CreationIndex(id) == CHOOSE i \in 1..Len(CreationOrder) : CreationOrder[i] = id

\* task x comes before task y: lower priority number, or the same priority
\* and created first
Before(d, x, y) ==
    \/ d.tasks[x].priority < d.tasks[y].priority
    \/ /\ d.tasks[x].priority = d.tasks[y].priority
       /\ CreationIndex(x) < CreationIndex(y)

\* C18: the head of get_available_tasks is the eligible task of the agent with
\* the lowest priority number and, among those, the one created first
C18_PriorityThenCreationOrder ==
    \A a \in Agents :
        get_available_tasks(db, a) # << >>
            => \A other \in EligibleIds(db, a) \ {get_available_tasks(db, a)[1].task_id} :
                   Before(db, get_available_tasks(db, a)[1].task_id, other)

----------------------------------------------------------------------------
(* The scheduler query, under SpecStore *)

\* coordinator p takes the step of run_agent that asks the scheduler for the
\* agent's next task (no explicit task id, no current task)
QueriesScheduler(p) ==
    /\ proc[p].pc = "ra_resolve"
    /\ proc[p].task_id = NoTask
    /\ proc[p].state.current_task_id = NoTask
    /\ proc'[p] # proc[p]

----------------------------------------------------------------------------
(* run_parallel_agents.py: run_agents_in_parallel(agents, max_parallel).    *)
(* A job is the index of an agent id in the list; a worker of the pool runs *)
(* run_agent for one job at a time, which starts agent_runner.py --agent as *)
(* a subprocess and waits for it                                            *)

AgentLists == UNION {[1..n -> Agents] : n \in 0..MaxAgents}

\* mutant: one worker for every agent of the list
pool_workers_fanout(max_parallel, agents) ==
    1..(IF Len(agents) > max_parallel THEN Len(agents) ELSE max_parallel)

\* multiprocessing.Pool(processes=max_parallel): the worker processes
pool_workers(max_parallel, agents) == 1..max_parallel

\* the worker is idle
NoJob == 0

\* the jobs whose agent_runner.py subprocess is alive
running_jobs(pl) ==
    {pl.workers[w] : w \in {x \in DOMAIN pl.workers : pl.workers[x] # NoJob}}
        \cup pl.orphans

\* line 98: the pool is created
PoolStart ==
    /\ pool = NoPool
    /\ \E agents \in AgentLists, max_parallel \in 1..MaxParallel :
         pool' = [pc |-> "submit", agents |-> agents, max_parallel |-> max_parallel,
                  next |-> 1, taskqueue |-> << >>,
                  workers |-> [w \in pool_workers(max_parallel, agents) |-> NoJob],
                  orphans |-> {}, ready |-> {}, results |-> << >>,
                  error |-> FALSE, interrupted |-> FALSE]
    /\ UNCHANGED <<db, now, proc, retry_log, runs, cmd>>

\* lines 103-105: one apply_async; after the last, the wait loop
PoolSubmit ==
    /\ pool.pc = "submit"
    /\ pool' = IF pool.next > Len(pool.agents)
               THEN [pool EXCEPT !.pc = "wait"]
               ELSE [pool EXCEPT !.taskqueue = Append(@, pool.next),
                                 !.results = Append(@, pool.next),
                                 !.next = @ + 1]
    /\ UNCHANGED <<db, now, proc, retry_log, runs, cmd>>

\* an idle worker takes the next job: run_agent lines 50-65, the subprocess
\* is started
WorkerTake(w) ==
    /\ pool.pc \in {"submit", "wait", "monitor", "closing"}
    /\ w \in DOMAIN pool.workers
    /\ pool.workers[w] = NoJob
    /\ pool.taskqueue # << >>
    /\ pool' = [pool EXCEPT !.workers[w] = Head(pool.taskqueue),
                            !.taskqueue = Tail(@)]
    /\ UNCHANGED <<db, now, proc, retry_log, runs, cmd>>

\* run_agent lines 68-69: the subprocess has ended, the job's result is ready
WorkerDone(w) ==
    /\ pool.pc \in {"submit", "wait", "monitor", "closing"}
    /\ w \in DOMAIN pool.workers
    /\ pool.workers[w] # NoJob
    /\ pool' = [pool EXCEPT !.workers[w] = NoJob,
                            !.ready = @ \cup {pool.workers[w]}]
    /\ UNCHANGED <<db, now, proc, retry_log, runs, cmd>>

RemoveAt(seq, i) == SubSeq(seq, 1, i - 1) \o SubSeq(seq, i + 1, Len(seq))

\* lines 109-112: for i, (agent_id, result) in enumerate(results[:]): the
\* index of the copy is used to pop from the list itself; pop(i) beyond the
\* end of the list raises IndexError
RECURSIVE PollFrom(_, _, _, _)
PollFrom(copy, results, ready, i) ==
    IF i > Len(copy) THEN [results |-> results, error |-> FALSE]
    ELSE IF copy[i] \notin ready THEN PollFrom(copy, results, ready, i + 1)
    ELSE IF i <= Len(results)
         THEN PollFrom(copy, RemoveAt(results, i), ready, i + 1)
         ELSE [results |-> results, error |-> TRUE]

\* lines 108-115: one round of the wait loop
PoolPoll ==
    /\ pool.pc = "wait"
    /\ LET round == PollFrom(pool.results, pool.results, pool.ready, 1) IN
       pool' = [pool EXCEPT !.results = round.results,
                            !.error = round.error,
                            !.pc = IF round.error THEN "closing"
                                   ELSE IF round.results = << >> THEN "monitor"
                                   ELSE "wait"]
    /\ UNCHANGED <<db, now, proc, retry_log, runs, cmd>>

\* lines 118-120: task_monitor.py is run, then the finally block
PoolMonitor ==
    /\ pool.pc = "monitor"
    /\ pool' = [pool EXCEPT !.pc = "closing"]
    /\ UNCHANGED <<db, now, proc, retry_log, runs, cmd>>

\* lines 122-124: KeyboardInterrupt in the dispatcher, pool.terminate().  The
\* queued jobs are dropped and the workers stopped; the subprocess of a busy
\* worker is terminated by the worker's own handler (run_agent lines 76-79)
\* or, when the worker is stopped first, left running
PoolInterrupt ==
    /\ pool.pc \in {"submit", "wait", "monitor"}
    /\ \E left \in SUBSET running_jobs(pool) :
         pool' = [pool EXCEPT !.pc = "closing",
                              !.taskqueue = << >>,
                              !.workers = [w \in DOMAIN @ |-> NoJob],
                              !.orphans = left,
                              !.interrupted = TRUE]
    /\ UNCHANGED <<db, now, proc, retry_log, runs, cmd>>

\* a subprocess left running ends
OrphanDone ==
    /\ pool.pc \in {"closing", "done"}
    /\ \E j \in pool.orphans : pool' = [pool EXCEPT !.orphans = @ \ {j}]
    /\ UNCHANGED <<db, now, proc, retry_log, runs, cmd>>

\* lines 125-127: pool.close(); pool.join() returns when the queue is empty
\* and every worker has finished its job
PoolClose ==
    /\ pool.pc = "closing"
    /\ pool.taskqueue = << >>
    /\ \A w \in DOMAIN pool.workers : pool.workers[w] = NoJob
    /\ pool' = [pool EXCEPT !.pc = "done"]
    /\ UNCHANGED <<db, now, proc, retry_log, runs, cmd>>

----------------------------------------------------------------------------
(* SpecPool: one dispatcher *)

InitPool ==
    /\ db \in {d \in InitialStores : d.tasks["T1"].priority = 1}
    /\ InitCommon

NextPool ==
    \/ PoolStart
    \/ PoolSubmit
    \/ \E w \in 1..MaxAgents : WorkerTake(w)
    \/ \E w \in 1..MaxAgents : WorkerDone(w)
    \/ PoolPoll
    \/ PoolMonitor
    \/ PoolInterrupt
    \/ OrphanDone
    \/ PoolClose

SpecPool == InitPool /\ [][NextPool]_vars

\* C20: while run_agents_in_parallel runs, at most max_parallel agent
\* executions are running
C20_AtMostMaxParallel ==
    pool.pc # "none" => Cardinality(running_jobs(pool)) <= pool.max_parallel

\* more agents than max_parallel: max_parallel executions are running and a
\* job is waiting in the queue
C20_Witness ==
    /\ pool.pc \in {"submit", "wait"}
    /\ Len(pool.agents) > pool.max_parallel
    /\ Cardinality(running_jobs(pool)) = pool.max_parallel
    /\ pool.taskqueue # << >>

\* C21: run_agents_in_parallel does not end with an exception, the list it
\* waits on has lost only entries of finished executions, and "All agents
\* have completed" is reached only when every execution has finished
C21_WaitsForEveryExecution ==
    pool.pc # "none" =>
        /\ pool.error = FALSE
        /\ pool.pc \in {"wait", "monitor"} =>
              \A j \in 1..Len(pool.agents) :
                  j \notin Range(pool.results) => j \in pool.ready
        /\ pool.pc = "monitor" => running_jobs(pool) = {}

C23_InterruptSparesInFlight ==
    [][pool.pc # "none" =>
          /\ (~pool.interrupted /\ pool'.interrupted) =>
                 running_jobs(pool') = running_jobs(pool)
          /\ pool.interrupted => running_jobs(pool') \subseteq running_jobs(pool)]_vars

----------------------------------------------------------------------------
(* SpecSweep: two coordinators (two agent_runner.py processes on one store) *)
(* find a stalled task: run_agent('A1') has claimed T1 and left it          *)
(* IN_PROGRESS (a response without marker, or the process died), and more   *)
(* than StallHours have passed                                              *)

StalledStores ==
    {[d EXCEPT !.tasks["T1"].status = IN_PROGRESS,
               !.rowids = <<"T2", "T1">>,
               !.agent_states["A1"].current_task_id = "T1"] :
        d \in {i \in InitialStores : /\ i.tasks["T1"].priority = 1
                                     /\ i.tasks["T1"].dependencies = {}}}

InitSweep ==
    /\ db \in StalledStores
    /\ now = MaxTime
    /\ proc = [p \in Procs |-> IdleProc]
    /\ retry_log = [id \in TaskIds |-> 0]
    /\ runs = [p \in Procs |-> 0]
    /\ pool = NoPool
    /\ cmd = NoCmd

\* run_all_agents, for a coordinator that is started at most MaxRuns times
PassBeginOnce(p) ==
    /\ runs[p] < MaxRuns
    /\ proc[p].pc = "idle"
    /\ LET snapshot == in_progress_rows(db) IN
       proc' = [proc EXCEPT ![p] =
                    [IdleProc EXCEPT !.entry = "run_all_agents",
                        !.pc = IF snapshot = << >> THEN "pass_agent" ELSE "sweep",
                        !.idx = IF snapshot = << >> THEN 1 ELSE 0,
                        !.in_progress_tasks = snapshot]]
    /\ runs' = [runs EXCEPT ![p] = @ + 1]
    /\ UNCHANGED <<db, now, retry_log, pool, cmd>>

NextSweep ==
    \E p \in Procs :
        \/ PassBeginOnce(p)
        \/ \E a \in Agents : StartRunAgentOnce(p, a, NoTask)
        \/ SweepTask(p)
        \/ PassAgent(p, FALSE)
        \/ RunAgentSteps(p, FALSE)

SpecSweep == InitSweep /\ [][NextSweep]_vars

\* C24: a stalled task is reset once: a sweep resets a task only if the task
\* is, in the store, IN_PROGRESS and stalled at that time; and no two
\* coordinators execute the same task at the same time
C24_StallResetOnce ==
    [][/\ \A p \in Procs :
            SweepsStalled(p) =>
                LET id == Head(proc[p].in_progress_tasks).task_id IN
                /\ db.tasks[id].status = IN_PROGRESS
                /\ is_stalled(db.tasks[id], now)
       /\ \A p \in Procs, q \in Procs :
            (p # q /\ Executing(p) /\ Executing(q))
                => proc[p].task.task_id # proc[q].task.task_id]_vars

----------------------------------------------------------------------------
(* The tools that write a task's status from outside the coordinator:       *)
(* update_task.py, reset_tasks.py and persistence.update_task_status        *)

\* update_task.py lines 35-48: get_task, task.status = TaskStatus(status),
\* save_task; no row: the store is left as it is
update_task(d, task_id, status) ==
    LET task == get_task(d, task_id) IN
    IF task = NoTaskObj THEN d
    ELSE save_task(d, [task EXCEPT !.status = status])

\* persistence.py lines 340-346; no row: ValueError, the store is left as it is
update_task_status(d, task_id, status, time) ==
    LET task == get_task(d, task_id) IN
    IF task = NoTaskObj THEN d
    ELSE save_task(d, [task EXCEPT !.status = status, !.updated_at = time])

\* reset_tasks.py lines 55-60: UPDATE tasks SET status = ?, updated_at = ?
\* WHERE task_id = ?; the row keeps its rowid
reset_update_task_status(d, task_id, new_status, time) ==
    IF task_id \in DOMAIN d.tasks
    THEN [d EXCEPT !.tasks[task_id].status = new_status,
                   !.tasks[task_id].updated_at = time]
    ELSE d

\* reset_tasks.py lines 122-135: --task-id, or every task whose status is
\* --status
reset_tasks(d, task_id, status, new_status, time) ==
    IF task_id # NoTask
    THEN reset_update_task_status(d, task_id, new_status, time)
    ELSE [d EXCEPT !.tasks =
            [id \in DOMAIN @ |->
                IF @[id].status = status
                THEN [@[id] EXCEPT !.status = new_status, !.updated_at = time]
                ELSE @[id]]]

\* reset_tasks.py lines 63-92, --clear-agent-tasks
clear_agent_completed_tasks(d) ==
    [d EXCEPT !.agent_states =
        [a \in DOMAIN @ |-> [@[a] EXCEPT !.current_task_id = NoTask]]]

\* python update_task.py <task_id> <status>, by a process that is started at
\* most MaxRuns times
UpdateTask(p) ==
    /\ runs[p] < MaxRuns
    /\ \E task_id \in TaskIds \cup {MissingId}, status \in TaskStatus :
         db' = update_task(db, task_id, status)
    /\ runs' = [runs EXCEPT ![p] = @ + 1]
    /\ UNCHANGED <<now, proc, retry_log, pool, cmd>>

\* a call of persistence.update_task_status, the same
UpdateTaskStatus(p) ==
    /\ runs[p] < MaxRuns
    /\ \E task_id \in TaskIds \cup {MissingId}, status \in TaskStatus :
         db' = update_task_status(db, task_id, status, now)
    /\ runs' = [runs EXCEPT ![p] = @ + 1]
    /\ UNCHANGED <<now, proc, retry_log, pool, cmd>>

\* python reset_tasks.py [--status S] [--new-status N] [--task-id T]
\* [--clear-agent-tasks], the same
ResetTasks(p) ==
    /\ runs[p] < MaxRuns
    /\ \E task_id \in TaskIds \cup {MissingId, NoTask},
          status \in {COMPLETED, FAILED}, new_status \in {PENDING},
          clear \in BOOLEAN :
         LET d1 == reset_tasks(db, task_id, status, new_status, now) IN
         db' = IF clear THEN clear_agent_completed_tasks(d1) ELSE d1
    /\ runs' = [runs EXCEPT ![p] = @ + 1]
    /\ UNCHANGED <<now, proc, retry_log, pool, cmd>>

\* SpecTools: a coordinator P1 that runs run_agent, and an operator P2 who
\* uses the tools
InitTools ==
    /\ db \in {d \in InitialStores : d.tasks["T1"].priority = 1}
    /\ InitCommon

NextTools ==
    \/ Tick
    \/ \E a \in Agents : StartRunAgentOnce("P1", a, NoTask)
    \/ RunAgentSteps("P1", FALSE)
    \/ UpdateTask("P2")
    \/ UpdateTaskStatus("P2")
    \/ ResetTasks("P2")

SpecTools == InitTools /\ [][NextTools]_vars

\* C25: a step that changes the status of a task sets the task's updated_at
\* to the current time
C25_StatusChangeStampsUpdatedAt ==
    [][\A id \in TaskIds :
          db'.tasks[id].status # db.tasks[id].status
              => db'.tasks[id].updated_at = now]_vars

----------------------------------------------------------------------------
(* The command: python agent_runner.py [--agent A [--task T]] [--daemon],   *)
(* main() at agent_runner.py lines 561-620.  --initialize creates the store *)
(* the model starts from                                                    *)

Modes == {"agent", "daemon", "once"}

\* the process has not ended
NoExit == -1

\* the values of TASK_TIMEOUT_HOURS in the environment: the shortest that is
\* no shorter than the stall threshold, and the default
TimeoutChoices == {StallHours, DefaultTimeoutHours}

\* run_all_agents is entered: check_stalled_tasks reads the tasks
enter_pass(d) ==
    LET snapshot == in_progress_rows(d) IN
    [IdleProc EXCEPT !.entry = "run_all_agents",
                     !.pc = IF snapshot = << >> THEN "pass_agent" ELSE "sweep",
                     !.idx = IF snapshot = << >> THEN 1 ELSE 0,
                     !.in_progress_tasks = snapshot]

\* lines 563-590: config.py is imported and the arguments are parsed; without
\* OPENAI_API_KEY main logs
\* an error and returns, and the interpreter ends with exit code 0 (line 620
\* calls main() and does not use its value)
CmdMain ==
    /\ cmd = NoCmd
    /\ \E key \in BOOLEAN, mode \in Modes, timeout_hours \in TimeoutChoices,
          a \in Agents \cup {UnknownAgent}, t \in TaskIds \cup {NoTask} :
         cmd' = [pc |-> IF key THEN "dispatch" ELSE "exited",
                 mode |-> mode,
                 timeout_hours |-> timeout_hours,
                 agent_id |-> IF mode = "agent" THEN a ELSE NoAgent,
                 task_id |-> IF mode = "agent" THEN t ELSE NoTask,
                 dispatched |-> FALSE,
                 exit_code |-> IF key THEN NoExit ELSE 0]
    /\ UNCHANGED <<db, now, proc, retry_log, runs, pool>>

\* lines 599-616: run_agent or run_all_agents is called
CmdDispatch(p) ==
    /\ cmd.pc = "dispatch"
    /\ proc[p].pc = "idle"
    /\ proc' = [proc EXCEPT ![p] =
                   IF cmd.mode = "agent"
                   THEN [IdleProc EXCEPT !.pc = "ra_begin", !.entry = "run_agent",
                                         !.agent_id = cmd.agent_id,
                                         !.task_id = cmd.task_id]
                   ELSE enter_pass(db)]
    /\ cmd' = [cmd EXCEPT !.pc = "running", !.dispatched = TRUE]
    /\ UNCHANGED <<db, now, retry_log, runs, pool>>

\* the call has returned: main returns and the process ends with exit code
\* 0, or (lines 609-611) the daemon sleeps and calls run_all_agents again
CmdReturn(p) ==
    /\ cmd.pc = "running"
    /\ proc[p].pc = "idle"
    /\ IF cmd.mode = "daemon"
       THEN /\ proc' = [proc EXCEPT ![p] = enter_pass(db)]
            /\ UNCHANGED cmd
       ELSE /\ cmd' = [cmd EXCEPT !.pc = "exited", !.exit_code = 0]
            /\ UNCHANGED proc
    /\ UNCHANGED <<db, now, retry_log, runs, pool>>

\* KeyboardInterrupt in the running command.  Inside the try block of
\* run_agent it passes the except clause (it is no Exception) and runs the
\* finally block, lines 181-186; the daemon catches it (612-613) and ends
\* with exit code 0, the other modes end with a traceback
CmdInterrupt(p) ==
    /\ cmd.pc = "running"
    /\ db' = IF proc[p].pc \in {"ra_execute", "ra_save_task"}
             THEN save_agent_state(db, release_agent(proc[p].state, proc[p].task))
             ELSE db
    /\ proc' = [proc EXCEPT ![p] = IdleProc]
    /\ cmd' = [cmd EXCEPT !.pc = "exited",
                          !.exit_code = IF cmd.mode = "daemon" THEN 0 ELSE 1]
    /\ UNCHANGED <<now, retry_log, runs, pool>>

InitCommand ==
    /\ db \in {d \in InitialStores : d.tasks["T1"].priority = 1}
    /\ InitCommon

NextCommand ==
    \/ Tick
    \/ CmdMain
    \/ CmdDispatch("P1")
    \/ CmdReturn("P1")
    \/ CmdInterrupt("P1")
    \/ SweepTask("P1")
    \/ PassAgent("P1", FALSE)
    \/ RunAgentSteps("P1", FALSE)

SpecCommand == InitCommand /\ [][NextCommand]_vars

\* C26: the command ends with exit code 0 only after it has called run_agent
\* or run_all_agents; a command that ends before any task processing has
\* started ends with a non-zero exit code
C26_ExitCodeTellsFailure ==
    (cmd.pc = "exited" /\ ~cmd.dispatched) => cmd.exit_code # 0

\* the step is the save_task of run_agent's outcome by p (lines 171-172, 179)
SavesOutcome(p) ==
    /\ proc[p].pc = "ra_save_task"
    /\ proc'[p].pc = "ra_finally"

\* C27: run_agent does not save its copy of a task over a reset made since
\* it took the task: when it saves its outcome the stored task is not
\* PENDING, and the save does not lower the stored retry_count
C27_ResetNotOverwritten ==
    [][\A p \in Procs :
          SavesOutcome(p) =>
              LET id == proc[p].task.task_id IN
              /\ db.tasks[id].status # PENDING
              /\ retry_count_of(db'.tasks[id]) >= retry_count_of(db.tasks[id])]_vars

\* the FAILED tasks of the agent that have been retried fewer than RetryCap
\* times
Retryable(agent_id) ==
    {id \in TaskIds : /\ db.tasks[id].assigned_agent_id = agent_id
                      /\ db.tasks[id].status = FAILED
                      /\ retry_log[id] < RetryCap}

\* the pass is at an agent that is idle, has no task in progress to resume
\* and no eligible PENDING task, and has a retryable FAILED task
NothingButRetry(p) ==
    /\ proc[p].pc = "pass_agent"
    /\ LET agent_id == AgentOrder[proc[p].idx]
           state == get_agent_state(db, agent_id)
       IN  /\ state.status = "idle"
           /\ \/ state.current_task_id = NoTask
              \/ get_task(db, state.current_task_id).status # IN_PROGRESS
           /\ get_available_tasks(db, agent_id) = << >>
           /\ Retryable(agent_id) # {}

\* C28: at such an agent the pass resets one of the retryable FAILED tasks
\* to PENDING and runs the agent on it
C28_RetryableIsRetried ==
    [][\A p \in Procs :
          (NothingButRetry(p) /\ proc'[p] # proc[p]) =>
              /\ proc'[p].pc = "ra_begin"
              /\ proc'[p].task_id \in Retryable(AgentOrder[proc[p].idx])
              /\ db'.tasks[proc'[p].task_id].status = PENDING]_vars

\* the pass of p is at an agent whose current task is IN_PROGRESS for longer
\* than the task timeout: lines 457-461 are about to mark it FAILED
TimeoutDue(p) ==
    /\ proc[p].pc = "pass_agent"
    /\ LET state == get_agent_state(db, AgentOrder[proc[p].idx])
           current == get_task(db, state.current_task_id)
       IN  /\ state.status # "working"
           /\ state.current_task_id # NoTask
           /\ current # NoTaskObj
           /\ current.status = IN_PROGRESS
           /\ now - current.updated_at > TASK_TIMEOUT_HOURS

----------------------------------------------------------------------------
(* SpecDeath: an execution P1 (agent_runner.py --agent A [--task T]) that   *)
(* can die, and a daemon P2 that repeats scheduling passes forever          *)

\* the process of p is killed inside run_agent after line 130 (the agent is
\* stored as working): nothing more is written, no finally block runs
Die(p) ==
    /\ proc[p].pc \in {"ra_claim", "ra_execute", "ra_save_task", "ra_finally"}
    /\ proc' = [proc EXCEPT ![p] = IdleProc]
    /\ UNCHANGED <<db, now, retry_log, runs, pool, cmd>>

InitDeath ==
    /\ db \in {d \in InitialStores : /\ d.tasks["T1"].priority = 1
                                   /\ d.tasks["T1"].dependencies = {}
                                   /\ d.tasks["T2"].dependencies = {}}
    /\ InitCommon

ExecutionSteps ==
    \/ \E a \in Agents, t \in TaskIds \cup {NoTask} : StartRunAgentOnce("P1", a, t)
    \/ RunAgentSteps("P1", FALSE)
    \/ Die("P1")

\* the daemon is started after the execution has ended or died
DaemonSteps ==
    /\ proc["P1"].pc = "idle"
    /\ runs["P1"] = MaxRuns
    /\ \/ PassBegin("P2")
       \/ SweepTask("P2")
       \/ PassAgent("P2", FALSE)
       \/ RunAgentSteps("P2", FALSE)

NextDeath ==
    \/ Tick
    \/ ExecutionSteps
    \/ DaemonSteps

\* the daemon's loop (agent_runner.py lines 609-611) goes on, and time
\* passes whenever the daemon sleeps between two passes
SpecDeath ==
    /\ InitDeath
    /\ [][NextDeath]_vars
    /\ WF_vars(DaemonSteps)
    /\ SF_vars(Tick)

\* the agent is stored as working and no execution of it is alive
Dead(a) ==
    /\ db.agent_states[a].status = "working"
    /\ \A p \in Procs : ~(InRunAgent(p) /\ proc[p].agent_id = a)

\* the task the agent holds, if IN_PROGRESS, is or will be older than the
\* stall threshold before the clock of the model stops
StallInReach(a) ==
    LET task == get_task(db, db.agent_states[a].current_task_id) IN
    (task # NoTaskObj /\ task.status = IN_PROGRESS)
        => task.updated_at + StallHours < MaxTime

\* C30: an agent left working by an execution that died is eventually idle
\* again under the daemon's repeated passes
C30_DeadAgentReturnsToIdle ==
    \A a \in Agents :
        (Dead(a) /\ StallInReach(a)) ~> (db.agent_states[a].status = "idle")

----------------------------------------------------------------------------
(* The publisher raises, agent_runner.py lines 382-426, under SpecResponse *)

\* the response has a change that can be published and commit_agent_changes
\* raises: the files are written locally
PublishFailed(response) ==
    /\ response.payload = "mapping"
    /\ response.file_changes = "list"
    /\ usable_changes(response) # << >>
    /\ response.publish = "raises"

\* the response lists changes and none of them is usable
NoUsableChange(response) ==
    /\ response.payload = "mapping"
    /\ response.file_changes = "list"
    /\ response.entries # << >>
    /\ usable_changes(response) = << >>

\* C35: when the publisher raises, the result records an artifact reference
\* for the local write, and it differs from the result of a response with no
\* usable change
C35_FailedPublishIsDistinguishable ==
    \A p \in Procs :
        (Processed(p) /\ PublishFailed(proc[p].response))
            => /\ proc[p].result.has_artifacts
               /\ \A r \in Responses :
                    NoUsableChange(r) => process_agent_response(r) # proc[p].result

----------------------------------------------------------------------------
(* The retry path of a pass, agent_runner.py lines 479-496, under SpecRetry *)

\* the pass of p takes its step at an agent and task id is FAILED before it
RetryStepOn(p, id) ==
    /\ proc[p].pc = "pass_agent"
    /\ proc'[p] # proc[p]
    /\ db.tasks[id].status = FAILED
    /\ db.tasks[id].assigned_agent_id = AgentOrder[proc[p].idx]

\* C33: a retry of a FAILED task raises its stored retry_count by exactly
\* one, makes it PENDING and stamps updated_at; a FAILED task that has been
\* retried RetryCap times is left as stored and is not run
C33_RetryCountsAndCaps ==
    [][\A p \in Procs : \A id \in TaskIds :
          RetryStepOn(p, id) =>
              /\ db'.tasks[id] # db.tasks[id] =>
                    /\ retry_count_of(get_task(db', id))
                          = retry_count_of(get_task(db, id)) + 1
                    /\ db'.tasks[id].status = PENDING
                    /\ db'.tasks[id].updated_at = now
              /\ retry_log[id] >= RetryCap =>
                    /\ db'.tasks[id] = db.tasks[id]
                    /\ ~(proc'[p].pc = "ra_begin" /\ proc'[p].task_id = id)]_vars

----------------------------------------------------------------------------
(* The release of the agent, agent_runner.py lines 181-186, under Spec *)

\* run_agent of p takes its last step, the finally block
Releases(p) == proc[p].pc = "ra_finally" /\ proc'[p] # proc[p]

\* C34: right after a run the agent is idle, and a current_task_id it keeps
\* names a task that is IN_PROGRESS
C34_RetainedTaskIsInProgress ==
    [][\A p \in Procs : Releases(p) =>
         LET state == get_agent_state(db', proc[p].agent_id) IN
         /\ state.status = "idle"
         /\ state.current_task_id # NoTask =>
               get_task(db', state.current_task_id).status = IN_PROGRESS]_vars

----------------------------------------------------------------------------
(* The current task of an idle agent in a pass, agent_runner.py lines       *)
(* 455-502, under SpecCommand                                               *)

\* the pass of p is at an agent that is not working and whose current task
\* is IN_PROGRESS
HasActiveTask(p) ==
    /\ proc[p].pc = "pass_agent"
    /\ LET state == get_agent_state(db, AgentOrder[proc[p].idx])
           current == get_task(db, state.current_task_id)
       IN  /\ state # NoState
           /\ state.status # "working"
           /\ state.current_task_id # NoTask
           /\ current # NoTaskObj
           /\ current.status = IN_PROGRESS

----------------------------------------------------------------------------
(* Agents that are working, under SpecRace: each coordinator is a process   *)
(* python agent_runner.py --agent A, as run_parallel_agents.run_agent starts *)
(* one for every agent of its list (lines 42-69)                            *)

\* the run of p has read the state of its agent (lines 97-106), has resolved
\* a task and is about to store the agent as working on it (lines 127-131)
AboutToWork(p) == proc[p].pc = "ra_save_state"

\* C37: a run that finds the state of its agent "working" starts no
\* execution and changes neither the state nor a task: it never gets to
\* store the agent's state for a task of its own
C37_WorkingAgentIsSkipped ==
    \A p \in Procs : AboutToWork(p) => proc[p].state.status # "working"

----------------------------------------------------------------------------
(* BLOCKED tasks and the recovery paths of a pass: the retry path,          *)
(* agent_runner.py lines 476-499 with get_failed_tasks (535-558), and the   *)
(* stall sweep (505-532).                                                   *)
(* SpecDaemon: one coordinator, the daemon of main() lines 606-611, which   *)
(* calls run_all_agents, sleeps and calls it again, forever; every step of  *)
(* it is taken in the end, and the time passes while it sleeps              *)

DaemonPassSteps ==
    \/ PassBegin("P1")
    \/ SweepTask("P1")
    \/ PassAgent("P1", FALSE)
    \/ RunAgentSteps("P1", FALSE)

NextDaemon ==
    \/ Tick
    \/ DaemonPassSteps

SpecDaemon ==
    Init /\ [][NextDaemon]_vars /\ WF_vars(DaemonPassSteps) /\ SF_vars(Tick)

BlockedIsLeftAlone ==
    [][\A id \in TaskIds :
          db.tasks[id].status = BLOCKED => db'.tasks[id] = db.tasks[id]]_vars

----------------------------------------------------------------------------
(* The monitoring cycle, continuous_monitoring.py main() lines 137-160, and *)
(* the parallel dispatcher as a command of its own, run_parallel_agents.py  *)
(* main() lines 162-181.  The dispatcher starts one process                 *)
(* python agent_runner.py --agent A for every agent of its list (lines      *)
(* 42-69): coordinator P1 for the first agent, P2 for the second.  The      *)
(* monitor is run with --no-quality and the dispatcher without              *)
(* --quality-checks: code_quality_workflow.py is not modelled               *)

\* cycles of a continuous command
MaxCycles == 2

\* continuous_monitoring.py line 80: --max-tasks 10
MonitorMaxTasks == 10

\* ensure_task_completion.py line 40: max_age_hours=24
CompletedMaxAgeHours == 24

\* ensure_task_completion.py line 238: max_age_hours=2
InProgressMaxAgeHours == 2

MonitorModes == {"monitoring", "parallel"}

\* the agent of the process the dispatcher starts on coordinator p
WorkerAgent(p) == IF p = "P1" THEN AgentOrder[1] ELSE AgentOrder[2]

\* the first step of a cycle: check_stalled_tasks unless --no-reset; the
\* dispatcher has no such step
cycle_start(c) ==
    IF c.mode = "monitoring" /\ ~c.no_reset THEN "check_stalled" ELSE "dispatch"

\* the command is started: python continuous_monitoring.py [--no-reset], or
\* python run_parallel_agents.py [--continuous]
MonMain ==
    /\ cmd = NoCmd
    /\ \E mode \in MonitorModes, flag \in BOOLEAN :
         LET c == [pc |-> "none", mode |-> mode,
                   no_reset |-> IF mode = "monitoring" THEN flag ELSE TRUE,
                   continuous |-> IF mode = "monitoring" THEN TRUE ELSE flag,
                   swept |-> FALSE, cycles |-> 1, todo |-> << >>]
         IN  cmd' = [c EXCEPT !.pc = cycle_start(c)]
    /\ UNCHANGED <<db, now, proc, retry_log, runs, pool>>

\* continuous_monitoring.check_stalled_tasks, lines 57-64:
\* python reset_tasks.py --status IN_PROGRESS --new-status PENDING
MonCheckStalled ==
    /\ cmd.pc = "check_stalled"
    /\ db' = reset_tasks(db, NoTask, IN_PROGRESS, PENDING, now)
    /\ cmd' = [cmd EXCEPT !.pc = "dispatch", !.swept = TRUE]
    /\ UNCHANGED <<now, proc, retry_log, runs, pool>>

\* process_pending_tasks (lines 67-74) of the monitor, or the dispatcher's
\* main: run_agents_in_parallel starts the processes of the agents
MonDispatch ==
    /\ cmd.pc = "dispatch"
    /\ \A p \in Procs : proc[p].pc = "idle"
    /\ proc' = [p \in Procs |->
                   [IdleProc EXCEPT !.pc = "ra_begin", !.entry = "run_agent",
                                    !.agent_id = WorkerAgent(p)]]
    /\ cmd' = [cmd EXCEPT !.pc = "running"]
    /\ UNCHANGED <<db, now, retry_log, runs, pool>>

\* run_agents_in_parallel returns when every process has ended
MonJoin ==
    /\ cmd.pc = "running"
    /\ \A p \in Procs : proc[p].pc = "idle"
    /\ cmd' = [cmd EXCEPT !.pc = IF cmd.mode = "monitoring" THEN "verify"
                                 ELSE "cycle_end"]
    /\ UNCHANGED <<db, now, proc, retry_log, runs, pool>>

\* ensure_task_completion.py lines 63-68: an artifact that is a PR url
has_pr(task) ==
    \E i \in 1..Len(task.artifacts) : task.artifacts[i] \in PrUrls

\* get_tasks_without_prs, lines 40-73: the tasks of the status that were
\* updated no longer than max_age_hours ago and have no PR
get_tasks_without_prs(d, status_filter, max_age_hours, time) ==
    LET cutoff_time == time - max_age_hours IN
    SelectSeq(get_all_tasks(d),
        LAMBDA task : /\ task.status = status_filter
                      /\ ~(task.updated_at < cutoff_time)
                      /\ ~has_pr(task))

\* ensure_tasks_have_prs, lines 234-242
tasks_to_process(d, time) ==
    LET completed_tasks ==
            get_tasks_without_prs(d, COMPLETED, CompletedMaxAgeHours, time)
        in_progress_tasks ==
            get_tasks_without_prs(d, IN_PROGRESS, InProgressMaxAgeHours, time)
        all == completed_tasks \o in_progress_tasks
    IN  SubSeq(all, 1, Min(Len(all), MonitorMaxTasks))

\* generate_fallback_file, lines 197-216, when commit_agent_changes returns
\* pr_url: the task object of the list is saved
generate_fallback_file(d, task, pr_url, time) ==
    save_task(d, [task EXCEPT !.artifacts = Append(@, pr_url),
                              !.status = COMPLETED,
                              !.updated_at = time])

\* verify_completed_tasks (lines 77-84) starts ensure_task_completion.py,
\* which reads the tasks to process
EnsureBegin ==
    /\ cmd.pc = "verify"
    /\ LET todo == tasks_to_process(db, now) IN
       cmd' = [cmd EXCEPT !.todo = todo,
                          !.pc = IF todo = << >> THEN "cycle_end"
                                 ELSE "ensure_run"]
    /\ UNCHANGED <<db, now, proc, retry_log, runs, pool>>

\* run_agent_on_task, lines 76-94:
\* python agent_runner.py --agent <assigned agent> --task <task id>
EnsureRunAgent ==
    /\ cmd.pc = "ensure_run"
    /\ proc["P1"].pc = "idle"
    /\ LET task_id == Head(cmd.todo).task_id IN
       proc' = [proc EXCEPT !["P1"] =
                   [IdleProc EXCEPT !.pc = "ra_begin", !.entry = "run_agent",
                        !.agent_id = get_task(db, task_id).assigned_agent_id,
                        !.task_id = task_id]]
    /\ cmd' = [cmd EXCEPT !.pc = "ensure_wait"]
    /\ UNCHANGED <<db, now, retry_log, runs, pool>>

\* lines 281-307: the process has ended (agent_runner.py ends with exit code
\* 0); a task that now has a PR is done, for any other the fallback is
\* generated, and commit_agent_changes returns a PR url or raises
EnsureFallback ==
    /\ cmd.pc = "ensure_wait"
    /\ proc["P1"].pc = "idle"
    /\ LET task == Head(cmd.todo)
           updated_task == get_task(db, task.task_id)
       IN  IF has_pr(updated_task) THEN db' = db
           ELSE \E outcome \in PublishOutcomes :
                  db' = IF outcome = "raises" THEN db
                        ELSE generate_fallback_file(db, task, outcome, now)
    /\ cmd' = [cmd EXCEPT !.todo = Tail(@),
                          !.pc = IF Tail(cmd.todo) = << >> THEN "cycle_end"
                                 ELSE "ensure_run"]
    /\ UNCHANGED <<now, proc, retry_log, runs, pool>>

\* the cycle ends: a continuous command sleeps and starts the next cycle,
\* until it is interrupted; the dispatcher without --continuous returns
MonCycleEnd ==
    /\ cmd.pc = "cycle_end"
    /\ cmd' = IF cmd.continuous /\ cmd.cycles < MaxCycles
              THEN [cmd EXCEPT !.pc = cycle_start(cmd), !.swept = FALSE,
                               !.cycles = @ + 1]
              ELSE [cmd EXCEPT !.pc = "exited"]
    /\ UNCHANGED <<db, now, proc, retry_log, runs, pool>>

InitMonitor ==
    /\ db \in {d \in InitialStores :
                 /\ d.tasks["T1"].priority = 1
                 /\ \A id \in TaskIds : d.tasks[id].dependencies = {}}
    /\ InitCommon

NextMonitor ==
    \/ Tick
    \/ MonMain
    \/ MonCheckStalled
    \/ MonDispatch
    \/ MonJoin
    \/ EnsureBegin
    \/ EnsureRunAgent
    \/ EnsureFallback
    \/ MonCycleEnd
    \/ \E p \in Procs : RunAgentSteps(p, FALSE)

SpecMonitor == InitMonitor /\ [][NextMonitor]_vars

\* the stalled-task step of the monitoring cycle is taken
MonitorSweeps == cmd.pc = "check_stalled" /\ cmd'.pc = "dispatch"

\* C31: the stall sweep changes only tasks that are IN_PROGRESS and were
\* updated longer ago than the stall threshold; every other task keeps its
\* status, retry_count and updated_at
C31_SweepChangesOnlyStalled ==
    [][MonitorSweeps =>
         \A id \in TaskIds :
             \/ /\ db.tasks[id].status = IN_PROGRESS
                /\ is_stalled(db.tasks[id], now)
             \/ /\ db'.tasks[id].status = db.tasks[id].status
                /\ db'.tasks[id].updated_at = db.tasks[id].updated_at
                /\ retry_count_of(get_task(db', id))
                      = retry_count_of(get_task(db, id))]_vars

\* C32: the executions of a cycle are dispatched after the stall sweep of
\* that cycle
C32_SweepBeforeDispatch ==
    cmd.pc = "running" => cmd.swept

\* ensure_tasks_have_prs re-runs the agent on the task at the head of its
\* list
EnsureReruns == cmd.pc = "ensure_run" /\ cmd'.pc = "ensure_wait"

\* ensure_tasks_have_prs generates the fallback for the task at the head of
\* its list and saves it COMPLETED
EnsureCompletes ==
    /\ cmd.pc = "ensure_wait"
    /\ cmd'.pc # "ensure_wait"
    /\ db' # db

\* the stored task is IN_PROGRESS and was updated within the last
\* InProgressMaxAgeHours hours
FreshInProgress(id) ==
    /\ db.tasks[id].status = IN_PROGRESS
    /\ now - db.tasks[id].updated_at <= InProgressMaxAgeHours

\* C39: ensure_tasks_have_prs neither re-runs an agent on an IN_PROGRESS
\* task that was updated within the last 2 hours nor marks it COMPLETED
\* through a fallback
C39_FreshInProgressIsLeftAlone ==
    [][(EnsureReruns \/ EnsureCompletes)
          => ~FreshInProgress(Head(cmd.todo).task_id)]_vars
====
